---- MODULE Spec2Model ----
(***************************************************************************)
(* AuthService of @cossth/react-oauth2 (OAuth2 Authorization Code flow     *)
(* with PKCE) as a state machine.                                          *)
(*                                                                         *)
(* The state is the browser's localStorage (keys pkce, auth, preAuthUri),  *)
(* the visible URL, the navigation the page has asked for, the service     *)
(* instance's timer handle, the timers and token requests outstanding on   *)
(* the page, and the client clock.  A string is a sequence of tokens; the  *)
(* delimiters "?", "&" and "=" are tokens of their own.                    *)
(***************************************************************************)
EXTENDS Integers, Sequences, FiniteSets, TLC

\* ------------------------------------------------------------------ bounds
\* The client clock advances MaxTicks times at most, by TickMs each time.
MaxTicks == 1
\* authorize() calls that may be awaiting createPKCECodes() at once.
MaxPendingAuthorize == 1
\* Parameters in the query string of a URL the provider redirects to.
MaxParams == 3

\* ------------------------------------------------------- program constants
\* setAuthTokens: const { refreshSlack = 5 } = this.props
DefaultRefreshSlack == 5
\* setAuthTokens: (auth.expires_in + refreshSlack) * 1000
SecondMs == 1000

\* ---------------------------------------------------------------- values
\* window.localStorage.getItem returns null for a missing key; a stored
\* value v is <<v>>.
Null == <<>>
\* A number that is undefined, NaN or (after JSON.stringify) null.
Undefined == -1
\* An absent refresh_token.
NoToken == 0

Keys == {"pkce", "auth", "preAuthUri"}

Min(S) == CHOOSE x \in S : \A y \in S : x <= y

\* JavaScript truthiness of a number field (undefined, NaN, null and 0 are falsy).
Falsy(x) == x = Undefined \/ x = 0

\* ------------------------------------------------------------- strings
\* String.prototype.split(d): always at least one piece.
RECURSIVE Split(_, _)
Split(s, d) ==
  LET idx == {i \in 1..Len(s) : s[i] = d}
  IN  IF idx = {} THEN <<s>>
      ELSE LET i == Min(idx)
           IN  <<SubSeq(s, 1, i - 1)>> \o Split(SubSeq(s, i + 1, Len(s)), d)

\* Array.prototype.join(d).
RECURSIVE Join(_, _)
Join(parts, d) ==
  IF Len(parts) = 0 THEN <<>>
  ELSE IF Len(parts) = 1 THEN parts[1]
  ELSE parts[1] \o <<d>> \o Join(Tail(parts), d)

\* Array.prototype.filter on the key of each split parameter.
RECURSIVE FilterNotCode(_)
FilterNotCode(params) ==
  IF Len(params) = 0 THEN <<>>
  ELSE IF Head(params)[1] = <<"code">> THEN FilterNotCode(Tail(params))
  ELSE <<Head(params)>> \o FilterNotCode(Tail(params))

\* decodeURIComponent: the escape %3D decodes to "="; other tokens are kept.
DecodeURIComponent(v) ==
  [i \in 1..Len(v) |-> IF v[i] = "%3D" THEN "=" ELSE v[i]]

\* getCodeFromLocation: [found, value]; found = FALSE is the null result.
RECURSIVE FirstCode(_)
FirstCode(pairs) ==
  IF Len(pairs) = 0 THEN [found |-> FALSE, value |-> <<>>]
  ELSE LET kv == Split(Head(pairs), "=")
           value == IF Len(kv) >= 2 THEN kv[2] ELSE <<>>
       IN  IF kv[1] = <<"code">>
           THEN [found |-> TRUE, value |-> DecodeURIComponent(value)]
           ELSE FirstCode(Tail(pairs))

getCodeFromLocation(location) ==
  LET split == Split(location, "?")
  IN  IF Len(split) < 2 THEN [found |-> FALSE, value |-> <<>>]
      ELSE FirstCode(Split(split[2], "&"))

\* removeCodeFromLocation: the URL handed to history.replaceState, or the
\* URL unchanged when there is no search part.
StrippedUrl(url) ==
  LET parts == Split(url, "?")
      base == parts[1]
      search == IF Len(parts) >= 2 THEN parts[2] ELSE <<>>
      splitParams == [i \in 1..Len(Split(search, "&")) |->
                        Split(Split(search, "&")[i], "=")]
      kept == FilterNotCode(splitParams)
      newSearch == Join([i \in 1..Len(kept) |-> Join(kept[i], "=")], "&")
  IN  IF Len(search) = 0 THEN url
      ELSE base \o (IF Len(newSearch) > 0 THEN <<"?">> \o newSearch ELSE <<>>)


\* -------------------------------------------------------------- inputs
\* URLs a page can be opened with (window.location.href).
Urls ==
  { <<"app">>,
    <<"app", "?", "x", "=", "1", "&", "code", "=", "XYZ">> }

\* Query parameters a redirect URL is made of: plain parameters, a code, a
\* code with a literal "=" in its value, a code with an escaped "=", and a
\* value with a literal "?" (RFC 3986 allows both in a query).
Params ==
  { <<"x", "=", "1">>,
    <<"y", "=", "2">>,
    <<"code", "=", "ABC">>,
    <<"code", "=", "A", "=", "B">>,
    <<"code", "=", "A", "%3D", "B">>,
    <<"x", "=", "a", "?", "b">> }

\* Fragments a redirect URL ends with: none, or "#top".
Fragments == { <<>>, <<"#", "top">> }

\* The URLs the provider can redirect to (window.location.href on return).
RedirectUrls ==
  { <<"app">> \o (IF Len(ps) = 0 THEN <<>> ELSE <<"?">> \o Join(ps, "&")) \o f :
      ps \in UNION {[1..n -> Params] : n \in 0..MaxParams}, f \in Fragments }

\* AuthServiceProps.autoRefresh?: boolean and refreshSlack?: number, as an
\* application supplies them: every value of autoRefresh with the default
\* slack, and auto-refresh with no slack at all.
Configs ==
  [autoRefresh : {"true", "false", "undefined"}, refreshSlack : {Undefined}]
  \cup [autoRefresh : {"true"}, refreshSlack : {0}]
\* expires_in of a token response, in seconds.
ExpiresIns == {1}
\* refresh_token values a provider issues.
RefreshTokens == {1, 2}
\* The client clock at the first page load (new Date().getTime(), never 0).
StartTime == SecondMs
\* The clock is observed every six seconds.
TickMs == 6 * SecondMs

\* Bodies response.json() can resolve with: a Token Record from a success
\* status, or an error object from a non-success status.
Bodies ==
  [ok : {TRUE}, refresh_token : {NoToken} \cup RefreshTokens, expires_in : ExpiresIns]
  \cup [ok : {FALSE}, refresh_token : {NoToken}, expires_in : {Undefined}]

\* ---------------------------------------------------------------- state
VARIABLES
  props,            \* AuthServiceProps: autoRefresh, refreshSlack
  storage,          \* window.localStorage under the prefix
  href,             \* window.location.href of the current page
  page,             \* "app": AuthService constructed; "provider": the
                    \* provider's login page after authorize();
                    \* "away": any other page
  nav,              \* navigation asked for by location.replace / reload,
                    \* not yet committed
  timeout,          \* this.timeout (0 is undefined)
  timers,           \* pending window.setTimeout callbacks
  requests,         \* fetchToken calls awaiting fetch() or response.json()
  pendingAuthorize, \* authorize() calls awaiting createPKCECodes()
  now,              \* new Date().getTime()
  last              \* how the latest token exchange of this page ended:
                    \* <<grant, handler, status of the response>>;
                    \* <<"timer", "stale", "none">> when startTimer has
                    \* met a stale record since;
                    \* <<"logout", "again", "none">> when logout() has
                    \* been called once more since; <<>> when none of these
VARIABLES
  carriedForward    \* the latest response this page has stored came
                    \* without a refresh_token and answered a refresh
                    \* request: the token sent was carried forward

vars == <<props, storage, href, page, nav, timeout, timers, requests,
          pendingAuthorize, now, last, carriedForward>>

NoNav == [kind |-> "none", url |-> <<>>]

\* The part of the state the synchronous code of a handler works on.
M == [storage |-> storage, href |-> href, nav |-> nav, timers |-> timers,
      timeout |-> timeout]

\* ------------------------------------------------------- storage helpers
getItem(m, key) == m.storage[key]
haveItem(m, key) == getItem(m, key) /= Null
removeItem(m, key) == [m EXCEPT !.storage[key] = Null]
setItem(m, key, value) == [m EXCEPT !.storage[key] = <<value>>]

isAuthenticated(m) == haveItem(m, "auth")
isPending(m) == haveItem(m, "pkce") /\ ~isAuthenticated(m)

\* window.location.replace(url) / window.location.reload(): the navigation
\* is asked for; the page lives on until it commits.
locationReplace(m, kind, url) == [m EXCEPT !.nav = [kind |-> kind, url |-> url]]

removeCodeFromLocation(m) == [m EXCEPT !.href = StrippedUrl(m.href)]

\* ---------------------------------------------------------------- tokens
refreshSlack == IF props.refreshSlack = Undefined THEN DefaultRefreshSlack
                ELSE props.refreshSlack

ExpiresAt(auth) ==
  IF auth.expires_in = Undefined THEN Undefined
  ELSE now + (auth.expires_in + refreshSlack) * SecondMs

setAuthTokens(m, auth) ==
  setItem(m, "auth", [ok |-> auth.ok, refresh_token |-> auth.refresh_token,
                      expires_in |-> auth.expires_in,
                      expires_at |-> ExpiresAt(auth)])

\* getAuthTokens, where the caller has checked that auth is stored.
getAuthTokens(m) == getItem(m, "auth")[1]

\* ---------------------------------------------------------------- timers
\* window.setTimeout hands out an id that no pending timer and no handle
\* still held has.
NewTimerId(pending, held) ==
  Min({i \in 1..(Cardinality(pending) + 2) :
         i /= held /\ \A t \in pending : t.id /= i})

ClearTimeout(pending, id) == {t \in pending : t.id /= id}

\* armRefreshTimer without the clearTimeout of the previous handle.
armRefreshTimerNoClear(m, refreshToken, timeoutDuration) ==
  LET id == NewTimerId(m.timers, m.timeout)
  IN  [m EXCEPT !.timers = m.timers \cup {[id |-> id, refreshToken |-> refreshToken,
                                           due |-> now + timeoutDuration]},
                !.timeout = id]

armRefreshTimer(m, refreshToken, timeoutDuration) ==
  LET kept == IF m.timeout /= 0 THEN ClearTimeout(m.timers, m.timeout)
              ELSE m.timers
      id == NewTimerId(kept, m.timeout)
  IN  [m EXCEPT !.timers = kept \cup {[id |-> id, refreshToken |-> refreshToken,
                                       due |-> now + timeoutDuration]},
                !.timeout = id]

\* startTimer without the removal of a stale Token Record.
startTimerKeepsStale(m) ==
  IF ~isAuthenticated(m) THEN m
  ELSE LET authTokens == getAuthTokens(m)
           expiresAt == authTokens.expires_at
           refreshToken == authTokens.refresh_token
       IN  IF Falsy(expiresAt) \/ refreshToken = NoToken THEN m
           ELSE IF expiresAt - now > 0
                THEN armRefreshTimer(m, refreshToken, expiresAt - now)
                ELSE m

startTimer(m) ==
  IF ~isAuthenticated(m) THEN m
  ELSE LET authTokens == getAuthTokens(m)
           expiresAt == authTokens.expires_at
           refreshToken == authTokens.refresh_token
       IN  IF Falsy(expiresAt) \/ refreshToken = NoToken THEN m
           ELSE IF expiresAt - now > 0
                THEN armRefreshTimer(m, refreshToken, expiresAt - now)
                ELSE removeCodeFromLocation(removeItem(m, "auth"))

\* startTimer finds a Token Record with a refresh token and an expires_at
\* that is not later than the clock (timeout <= 0).
StaleRecord(m) ==
  /\ isAuthenticated(m)
  /\ ~Falsy(getAuthTokens(m).expires_at)
  /\ getAuthTokens(m).refresh_token /= NoToken
  /\ getAuthTokens(m).expires_at - now <= 0

\* What the page last did that ended a session: unchanged unless startTimer
\* met a stale record.
StaleSeen(m, otherwise) ==
  IF StaleRecord(m) THEN <<"timer", "stale", "none">> ELSE otherwise

restoreUri(m) ==
  LET uri == getItem(m, "preAuthUri")
      m1 == removeItem(m, "preAuthUri")
      m2 == IF uri /= Null THEN locationReplace(m1, "uri", uri[1]) ELSE m1
  IN  removeCodeFromLocation(m2)

\* ------------------------------------------------------------ fetchToken
NewRequestId(pending) ==
  Min({i \in 1..(Cardinality(pending) + 1) : \A r \in pending : r.id /= i})

\* response.ok of the response a body came with.
Status(json) == IF json.ok THEN "ok" ELSE "error"

\* The grant a request asks for.
Grant(r) == IF r.isRefresh THEN "refresh" ELSE "code"

\* fetchToken up to "await fetch(...)": the request that is sent.
TokenRequest(pending, code, refresh_token, codeVerifier, isRefresh) ==
  [id |-> NewRequestId(pending), isRefresh |-> isRefresh, code |-> code,
   refresh_token |-> refresh_token, codeVerifier |-> codeVerifier,
   stage |-> "fetch"]

\* fetchToken without the carry-forward of the refresh token sent.
fetchTokenStoreNoCarry(m, r, json) ==
  LET stored == setAuthTokens(m, json)
  IN  IF props.autoRefresh /= "false" THEN startTimer(stored) ELSE stored

\* fetchToken from "await response.json()" on: carry the refresh token
\* forward, setAuthTokens, startTimer unless autoRefresh is false.
fetchTokenStore(m, r, json) ==
  LET carried == IF r.isRefresh /\ json.refresh_token = NoToken
                 THEN [json EXCEPT !.refresh_token = r.refresh_token]
                 ELSE json
      stored == setAuthTokens(m, carried)
  IN  IF props.autoRefresh /= "false" THEN startTimer(stored) ELSE stored

\* "return this.getAuthTokens()" throws when startTimer has removed auth.
fetchTokenFulfilled(m) == isAuthenticated(m)

\* The .catch of the code exchange without removeItem('auth').
codeExchangeCatchKeepsAuth(m) ==
  removeCodeFromLocation(removeItem(m, "pkce"))

\* constructor: .catch of the code exchange.
codeExchangeCatch(m) ==
  removeCodeFromLocation(removeItem(removeItem(m, "pkce"), "auth"))

\* armRefreshTimer: .then of the refresh exchange.
refreshThen(m) ==
  LET tokens == getAuthTokens(m)
  IN  IF Falsy(tokens.expires_at) THEN m
      ELSE IF tokens.expires_at - now > 0
           THEN armRefreshTimer(m, tokens.refresh_token, tokens.expires_at - now)
           ELSE removeCodeFromLocation(removeItem(m, "auth"))

\* armRefreshTimer: .catch of the refresh exchange.
refreshCatch(m) == removeCodeFromLocation(removeItem(m, "auth"))

\* ---------------------------------------------------------------- actions
Commit(m) ==
  /\ storage' = m.storage
  /\ href' = m.href
  /\ nav' = m.nav
  /\ timers' = m.timers
  /\ timeout' = m.timeout

\* constructor when the URL has no code: "else if (this.props.autoRefresh)
\* this.startTimer()"; a flag that is not supplied is falsy.
constructWithoutCode(m) ==
  IF props.autoRefresh = "true" THEN startTimer(m) ELSE m

\* new AuthService(props) on a page opened with URL u.
constructor(u) ==
  LET fresh == [storage |-> storage, href |-> u, nav |-> NoNav, timers |-> {},
                timeout |-> 0]
      code == getCodeFromLocation(u)
  IN  /\ page' = "app"
      /\ pendingAuthorize' = 0
      /\ carriedForward' = FALSE
      /\ UNCHANGED <<props, now>>
      /\ IF code.found
         THEN IF haveItem(fresh, "pkce")
              THEN /\ Commit(fresh)
                   /\ requests' = {TokenRequest({}, code.value, NoToken,
                                     getItem(fresh, "pkce")[1].codeVerifier, FALSE)}
                   /\ last' = <<>>
              ELSE \* getPkce throws inside fetchToken: the promise rejects
                   /\ Commit(codeExchangeCatch(fresh))
                   /\ requests' = {}
                   /\ last' = <<"code", "catch", "none">>
         ELSE /\ Commit(constructWithoutCode(fresh))
              /\ requests' = {}
              /\ last' = IF props.autoRefresh = "true"
                         THEN StaleSeen(fresh, <<>>) ELSE <<>>

\* The browser opens the application (the provider's redirect, a bookmark,
\* the back button).
Load(u) ==
  /\ page /= "app"
  /\ constructor(u)

\* The user reloads the application page.
Reload ==
  /\ page = "app"
  /\ nav = NoNav
  /\ constructor(href)

\* The navigation asked for commits: the page, its timers and its requests
\* are gone.
Unload ==
  /\ page = "app"
  /\ nav /= NoNav
  /\ CASE nav.kind = "uri" -> constructor(nav.url)
       [] nav.kind = "reload" -> constructor(href)
       [] OTHER ->
            /\ page' = IF nav.kind = "authorize" THEN "provider" ELSE "away"
            /\ nav' = NoNav
            /\ timers' = {}
            /\ timeout' = 0
            /\ requests' = {}
            /\ pendingAuthorize' = 0
            /\ last' = <<>>
            /\ carriedForward' = FALSE
            /\ UNCHANGED <<props, storage, href, now>>

\* authorize() up to "await createPKCECodes()".
AuthorizeCall ==
  /\ page = "app"
  /\ nav = NoNav
  /\ pendingAuthorize < MaxPendingAuthorize
  /\ pendingAuthorize' = pendingAuthorize + 1
  /\ UNCHANGED <<props, storage, href, page, nav, timeout, timers, requests, now,
                 last, carriedForward>>

\* createPKCECodes: a verifier no stored pair and no request in flight has.
createPKCECodes ==
  LET used == {r.codeVerifier : r \in requests}
              \cup (IF storage["pkce"] = Null THEN {}
                    ELSE {storage["pkce"][1].codeVerifier})
  IN  [codeVerifier |-> Min({i \in 1..(Cardinality(used) + 1) : i \notin used})]

authorize(m, pkce) ==
  LET m1 == setItem(m, "pkce", pkce)
      m2 == setItem(m1, "preAuthUri", m.href)
      m3 == removeItem(m2, "auth")
  IN  locationReplace(m3, "authorize", <<>>)

\* authorize() from the resolution of createPKCECodes() on.
AuthorizeResume ==
  /\ page = "app"
  /\ pendingAuthorize > 0
  /\ pendingAuthorize' = pendingAuthorize - 1
  /\ Commit(authorize(M, createPKCECodes))
  /\ UNCHANGED <<props, page, requests, now, last, carriedForward>>

\* logout without removeItem('pkce').
logoutKeepsPkce(m, shouldEndSession) ==
  LET m1 == removeItem(m, "auth")
  IN  IF shouldEndSession THEN locationReplace(m1, "logout", <<>>)
      ELSE locationReplace(m1, "reload", <<>>)

\* logout with a clearTimeout of the refresh timer.
logoutClearsTimer(m, shouldEndSession) ==
  LET m1 == removeItem(removeItem(m, "pkce"), "auth")
      m2 == [m1 EXCEPT !.timers = ClearTimeout(m1.timers, m1.timeout)]
  IN  IF shouldEndSession THEN locationReplace(m2, "logout", <<>>)
      ELSE locationReplace(m2, "reload", <<>>)

logout(m, shouldEndSession) ==
  LET m1 == removeItem(removeItem(m, "pkce"), "auth")
  IN  IF shouldEndSession THEN locationReplace(m1, "logout", <<>>)
      ELSE locationReplace(m1, "reload", <<>>)

\* A caller invokes logout(): on a page that has asked for no navigation,
\* or once more before the navigation of an earlier logout() commits.
Logout(shouldEndSession) ==
  /\ page = "app"
  /\ nav.kind \in {"none", "reload", "logout"}
  /\ Commit(logout(M, shouldEndSession))
  /\ last' = IF nav = NoNav THEN last ELSE <<"logout", "again", "none">>
  /\ UNCHANGED <<props, page, requests, pendingAuthorize, now, carriedForward>>

\* A caller invokes the public startTimer().
StartTimer ==
  /\ page = "app"
  /\ nav = NoNav
  /\ Commit(startTimer(M))
  /\ last' = StaleSeen(M, last)
  /\ UNCHANGED <<props, page, requests, pendingAuthorize, now, carriedForward>>

\* The callback of a pending timer runs: fetchToken(refreshToken, true).
TimerFire(t) ==
  /\ page = "app"
  /\ t \in timers
  /\ now >= t.due
  /\ timers' = timers \ {t}
  /\ requests' = requests \cup
       {TokenRequest(requests, <<>>, t.refreshToken, 0, TRUE)}
  /\ UNCHANGED <<props, storage, href, page, nav, timeout, pendingAuthorize, now,
                 last, carriedForward>>

\* fetch() resolves with a response (of any status): removeItem('pkce'),
\* then await response.json().
FetchResolve(r) ==
  /\ r \in requests
  /\ r.stage = "fetch"
  /\ requests' = (requests \ {r}) \cup {[r EXCEPT !.stage = "json"]}
  /\ Commit(removeItem(M, "pkce"))
  /\ UNCHANGED <<props, page, pendingAuthorize, now, last, carriedForward>>

\* fetch() rejects, or response.json() rejects on an unparsable body: the
\* .catch the caller of fetchToken attached runs.
ExchangeReject(r) ==
  /\ r \in requests
  /\ requests' = requests \ {r}
  /\ Commit(IF r.isRefresh THEN refreshCatch(M) ELSE codeExchangeCatch(M))
  /\ last' = <<Grant(r), "catch", "none">>
  /\ UNCHANGED <<props, page, pendingAuthorize, now, carriedForward>>

\* response.json() resolves with a body.
JsonResolve(r, json) ==
  /\ r \in requests
  /\ r.stage = "json"
  /\ requests' = requests \ {r}
  /\ LET m == fetchTokenStore(M, r, json)
     IN  IF fetchTokenFulfilled(m)
         THEN /\ Commit(IF r.isRefresh THEN refreshThen(m) ELSE restoreUri(m))
              /\ last' = <<Grant(r), "then", Status(json)>>
         ELSE /\ Commit(IF r.isRefresh THEN refreshCatch(m)
                        ELSE codeExchangeCatch(m))
              /\ last' = <<Grant(r), "catch", "none">>
  /\ carriedForward' = (r.isRefresh /\ json.refresh_token = NoToken)
  /\ UNCHANGED <<props, page, pendingAuthorize, now>>

\* The client clock advances.
Tick ==
  /\ now + TickMs <= StartTime + MaxTicks * TickMs
  /\ now' = now + TickMs
  /\ UNCHANGED <<props, storage, href, page, nav, timeout, timers, requests,
                 pendingAuthorize, last, carriedForward>>

Init ==
  /\ props \in Configs
  /\ storage = [k \in Keys |-> Null]
  /\ href = <<>>
  /\ page = "away"
  /\ nav = NoNav
  /\ timeout = 0
  /\ timers = {}
  /\ requests = {}
  /\ pendingAuthorize = 0
  /\ now = StartTime
  /\ last = <<>>
  /\ carriedForward = FALSE

Next ==
  \/ \E u \in Urls : Load(u)
  \/ Reload
  \/ Unload
  \/ AuthorizeCall
  \/ AuthorizeResume
  \/ \E b \in BOOLEAN : Logout(b)
  \/ StartTimer
  \/ \E t \in timers : TimerFire(t)
  \/ \E r \in requests : FetchResolve(r)
  \/ \E r \in requests : ExchangeReject(r)
  \/ \E r \in requests, json \in Bodies : JsonResolve(r, json)
  \/ Tick

Spec == Init /\ [][Next]_vars

\* ------------------------------------------------- return from the provider
\* The browser is at the provider after authorize() on "app": the pair and
\* the Pre-Auth URI are stored.
InitAtProvider ==
  /\ props \in Configs
  /\ storage = [k \in Keys |-> IF k = "pkce" THEN <<[codeVerifier |-> 1]>>
                                ELSE IF k = "preAuthUri" THEN << <<"app">> >>
                                ELSE Null]
  /\ href = <<"app">>
  /\ page = "provider"
  /\ nav = NoNav
  /\ timeout = 0
  /\ timers = {}
  /\ requests = {}
  /\ pendingAuthorize = 0
  /\ now = StartTime
  /\ last = <<>>
  /\ carriedForward = FALSE

\* The provider redirects to any URL of RedirectUrls; the code exchange the
\* constructor starts runs to its end.
NextOnReturn ==
  \/ \E u \in RedirectUrls : Load(u)
  \/ \E r \in requests : FetchResolve(r)
  \/ \E r \in requests : ExchangeReject(r)
  \/ \E r \in requests, json \in Bodies : JsonResolve(r, json)

ReturnSpec == InitAtProvider /\ [][NextOnReturn]_vars

\* ------------------------------------------------------------- steps
\* The step constructs the service on URL u.
ConstructorStep(u) ==
  \/ Load(u)
  \/ Reload /\ u = href
  \/ Unload /\ nav.kind = "uri" /\ u = nav.url
  \/ Unload /\ nav.kind = "reload" /\ u = href

\* A code exchange started by construction has not ended.
CodeExchangeOutstanding == \E r \in requests : ~r.isRefresh

\* An authorization attempt is in flight: authorize() has sent the user to
\* the provider, or a code exchange is unresolved.
AttemptInFlight ==
  \/ page = "provider"
  \/ page = "app" /\ nav.kind = "authorize"
  \/ CodeExchangeOutstanding

\* ------------------------------------------------------------- claims
\* C1: a PKCE Pair is in storage if and only if an authorization attempt
\* is in flight; a page constructed without a code and with no attempt in
\* progress does not report isPending().
C1_PkceIffAttemptInFlight ==
  /\ haveItem(M, "pkce") <=> AttemptInFlight
  /\ (page = "app" /\ ~AttemptInFlight) => ~isPending(M)

\* C2: storage never holds both a PKCE Pair and a Token Record.
C2_NeverPkceAndAuth ==
  ~(haveItem(M, "pkce") /\ haveItem(M, "auth"))

\* The step ends a code exchange whose response had a success status and a
\* body that parsed.
CodeExchangeSucceeds ==
  /\ last' = <<"code", "then", "ok">>
  /\ \E r \in requests, json \in Bodies :
       ~r.isRefresh /\ json.ok /\ JsonResolve(r, json)

\* The step ends a code exchange in the constructor's .catch: the request
\* rejects, the body cannot be parsed, or the PKCE Pair is missing.
CodeExchangeFails ==
  /\ last' = <<"code", "catch", "none">>
  /\ \/ \E r \in requests : ~r.isRefresh /\ ExchangeReject(r)
     \/ \E u \in Urls \cup {href, nav.url} :
          /\ ConstructorStep(u)
          /\ getCodeFromLocation(u).found
          /\ ~haveItem(M, "pkce")

\* The step sends a code exchange request that carries the stored verifier.
SendsStoredVerifier ==
  \A r \in requests' \ requests :
    (~r.isRefresh /\ r.stage = "fetch") =>
      /\ haveItem(M, "pkce")
      /\ r.codeVerifier = getItem(M, "pkce")[1].codeVerifier

\* After a successful code exchange.
ExchangedState(m) ==
  /\ haveItem(m, "auth")
  /\ getAuthTokens(m).ok
  /\ ~haveItem(m, "pkce")
  /\ ~haveItem(m, "preAuthUri")
  /\ ~getCodeFromLocation(m.href).found

\* C3: a code exchange is sent with the stored verifier; when it succeeds,
\* auth holds the Token Record, pkce and preAuthUri are absent, the code is
\* gone from the URL and navigation goes to the saved Pre-Auth URI.
C3_SuccessfulCodeExchange ==
  [][ /\ SendsStoredVerifier
      /\ CodeExchangeSucceeds =>
           /\ ExchangedState(M')
           /\ haveItem(M, "preAuthUri") =>
                nav' = [kind |-> "uri", url |-> getItem(M, "preAuthUri")[1]]
    ]_vars

\* After a failed code exchange: nothing stored, no code in the URL, the
\* session Unauthenticated.
FailedExchangeState(m) ==
  /\ ~haveItem(m, "pkce")
  /\ ~haveItem(m, "auth")
  /\ ~getCodeFromLocation(m.href).found
  /\ ~isPending(m)
  /\ ~isAuthenticated(m)

\* C4: when the code exchange started by construction fails, pkce and auth
\* are absent, the code is gone from the URL, the session is
\* Unauthenticated and the service is constructed all the same.
C4_FailedCodeExchange ==
  [][CodeExchangeFails => (FailedExchangeState(M') /\ page' = "app")]_vars

C4_Witness ==
  /\ last = <<"code", "catch", "none">>
  /\ page = "app"
  /\ haveItem(M, "preAuthUri")
  /\ FailedExchangeState(M)

\* C5: once the code exchange has resolved, with success or failure, pkce
\* and preAuthUri are both deleted.
C5_PairAndUriDeleted ==
  [][(CodeExchangeSucceeds \/ CodeExchangeFails) =>
       (~haveItem(M', "pkce") /\ ~haveItem(M', "preAuthUri"))]_vars

\* C6: a response with a non-success status writes no Token Record: what
\* auth holds always comes from a success response.
C6_NoRecordFromErrorStatus ==
  haveItem(M, "auth") => getAuthTokens(M).ok

\* C7: at most one refresh timer is pending, and it is the one this.timeout
\* holds.
C7_OneTimerPending ==
  /\ Cardinality(timers) <= 1
  /\ \A t \in timers : t.id = timeout

C7_Witness ==
  /\ last = <<"refresh", "then", "ok">>
  /\ Cardinality(timers) = 1
  /\ haveItem(M, "auth")

\* C8: at most one token-exchange request is outstanding.
C8_OneRequestOutstanding ==
  Cardinality(requests) <= 1

\* The step ends a refresh exchange in the timer's .catch.
RefreshFails ==
  /\ last' = <<"refresh", "catch", "none">>
  /\ \E r \in requests : r.isRefresh /\ ExchangeReject(r)

\* The refresh chain has stopped: no Token Record, no timer pending, no
\* refresh request outstanding.
RefreshStopped(m, outstanding) ==
  /\ ~haveItem(m, "auth")
  /\ ~isAuthenticated(m)
  /\ m.timers = {}
  /\ \A r \in outstanding : ~r.isRefresh

\* C9: when a refresh exchange fails, the Token Record is deleted, the
\* session is Unauthenticated, no refresh timer is pending and no refresh
\* request is left to be sent.
C9_RefreshFailureStops ==
  [][RefreshFails => RefreshStopped(M', requests')]_vars

\* The step ends an exchange that stored a Token Record received now.
TokenRecordReceived ==
  /\ Len(last') = 3
  /\ last'[2] = "then"
  /\ last'[3] = "ok"
  /\ \E r \in requests : r.stage = "json" /\ r \notin requests'
  /\ haveItem(M', "auth")

\* C10: the refresh timer armed for a Token Record received at time T with
\* lifetime expires_in fires no later than T + expires_in * 1000 ms.
C10_RefreshBeforeExpiry ==
  [][TokenRecordReceived =>
       \A t \in timers' :
         t.due <= now + getAuthTokens(M').expires_in * SecondMs]_vars

\* The step stores a Token Record under auth that was not stored before.
AuthWritten ==
  /\ storage'["auth"] /= Null
  /\ storage'["auth"] /= storage["auth"]

\* expires_at as the contract gives it for a record received at time T.
ContractExpiresAt(T, expires_in, slack) ==
  T + (expires_in + (IF slack = Undefined THEN 5 ELSE slack)) * 1000

\* C11: a Token Record persisted at client time T has expires_at =
\* T + (expires_in + refreshSlack) * 1000 ms, refreshSlack defaulting to 5,
\* and the stored record changes only when a successful exchange writes a
\* new one.
C11_ExpiresAtComputedOnce ==
  [][AuthWritten =>
       /\ TokenRecordReceived
       /\ getAuthTokens(M').expires_at =
            ContractExpiresAt(now, getAuthTokens(M').expires_in,
                              props.refreshSlack)]_vars

\* The step runs startTimer(): the public call, or a construction without
\* a code under autoRefresh.
StartTimerRuns ==
  \/ StartTimer
  \/ /\ props.autoRefresh = "true"
     /\ \E u \in Urls \cup {href, nav.url} :
          ConstructorStep(u) /\ ~getCodeFromLocation(u).found

\* C12: when startTimer() runs on a Token Record that has a refresh token
\* and an expires_at not later than the clock, the record is deleted, no
\* timer is armed, no refresh request is sent and the session is
\* Unauthenticated.
C12_StaleRecordDeleted ==
  [][(StaleRecord(M) /\ StartTimerRuns) =>
       /\ ~haveItem(M', "auth")
       /\ ~isAuthenticated(M')
       /\ timers' \subseteq timers
       /\ requests' \subseteq requests]_vars

C12_Witness ==
  /\ last = <<"timer", "stale", "none">>
  /\ page = "app"
  /\ ~haveItem(M, "auth")
  /\ now > StartTime

\* After the refresh request r was answered with json: the record holds
\* the token of the response, or the token sent when the response has
\* none, and the timer armed for the next refresh carries that token.
RefreshedState(m, r, json) ==
  LET expected == IF json.refresh_token = NoToken THEN r.refresh_token
                  ELSE json.refresh_token
  IN  /\ haveItem(m, "auth")
      /\ getAuthTokens(m).refresh_token = expected
      /\ expected /= NoToken
      /\ m.timers /= {}
      /\ \A t \in m.timers : t.id = m.timeout => t.refreshToken = expected
      /\ \E t \in m.timers : t.id = m.timeout

\* C13: after a successful refresh exchange whose response has no
\* refresh_token the stored record holds the token that was sent and the
\* next refresh is armed with it; a refresh_token in the response replaces
\* it.
C13_RefreshTokenCarriedForward ==
  [][\A r \in requests, json \in Bodies :
       (/\ last' = <<"refresh", "then", "ok">>
        /\ r.isRefresh
        /\ json.ok
        /\ JsonResolve(r, json)) => RefreshedState(M', r, json)]_vars

C13_Witness ==
  /\ last = <<"refresh", "then", "ok">>
  /\ carriedForward
  /\ haveItem(M, "auth")
  /\ \E t \in timers :
       t.id = timeout /\ t.refreshToken = getAuthTokens(M).refresh_token

\* C14: logout() is idempotent on storage: after one call and after a
\* second call auth and pkce are absent, whatever was stored and whatever
\* endSession is; endSession false asks for a reload of the page,
\* endSession true for a navigation to the logout URL.
C14_LogoutIdempotent ==
  [][\A b \in BOOLEAN :
       Logout(b) =>
         /\ ~haveItem(M', "auth")
         /\ ~haveItem(M', "pkce")
         /\ nav'.kind = (IF b THEN "logout" ELSE "reload")
         /\ \A again \in BOOLEAN :
              /\ logout(M', again).storage = storage'
              /\ logout(M', again).nav.kind =
                   (IF again THEN "logout" ELSE "reload")]_vars

C14_Witness ==
  /\ last = <<"logout", "again", "none">>
  /\ page = "app"
  /\ nav.kind = "reload"
  /\ ~haveItem(M, "auth")
  /\ ~haveItem(M, "pkce")
  /\ haveItem(M, "preAuthUri")

\* What authorize() leaves in storage: a pair, the Pre-Auth URI, no Token
\* Record; the session is Pending.
AuthorizedState(m) ==
  /\ haveItem(m, "pkce")
  /\ haveItem(m, "preAuthUri")
  /\ getItem(m, "preAuthUri")[1] = m.href
  /\ ~haveItem(m, "auth")
  /\ isPending(m)
  /\ ~isAuthenticated(m)

\* C15: from any state, once authorize() has navigated away storage holds
\* a freshly generated PKCE Pair and the Pre-Auth URI equal to the URL the
\* user was on, holds no Token Record, and the session is Pending.
C15_AuthorizeLeavesPending ==
  [][/\ AuthorizeResume =>
          /\ AuthorizedState(M')
          /\ storage'["pkce"] /= storage["pkce"]
          /\ getItem(M', "preAuthUri")[1] = href
          /\ nav'.kind = "authorize"
     /\ (Unload /\ page' = "provider") => AuthorizedState(M')]_vars

\* --------------------------------------------------- the URL contract
\* Position of the first token d in s; 0 when there is none.
IndexOf(s, d) ==
  IF \E i \in 1..Len(s) : s[i] = d THEN Min({i \in 1..Len(s) : s[i] = d})
  ELSE 0

\* A URL is base [ "?" query ] [ "#" fragment ].
UrlFragment(url) ==
  IF IndexOf(url, "#") = 0 THEN <<>>
  ELSE SubSeq(url, IndexOf(url, "#"), Len(url))

BeforeFragment(url) ==
  IF IndexOf(url, "#") = 0 THEN url ELSE SubSeq(url, 1, IndexOf(url, "#") - 1)

UrlBase(url) ==
  LET main == BeforeFragment(url)
  IN  IF IndexOf(main, "?") = 0 THEN main
      ELSE SubSeq(main, 1, IndexOf(main, "?") - 1)

\* The parameters of the query string, each with its whole text.
QueryParams(url) ==
  LET main == BeforeFragment(url)
      at == IndexOf(main, "?")
  IN  IF at = 0 \/ at = Len(main) THEN <<>>
      ELSE Split(SubSeq(main, at + 1, Len(main)), "&")

\* A parameter is key [ "=" value ], split at its first "=".
ParamKey(param) ==
  IF IndexOf(param, "=") = 0 THEN param
  ELSE SubSeq(param, 1, IndexOf(param, "=") - 1)

ParamValue(param) ==
  IF IndexOf(param, "=") = 0 THEN <<>>
  ELSE SubSeq(param, IndexOf(param, "=") + 1, Len(param))

IsCodeParam(param) == ParamKey(param) = <<"code">>

\* The URL without its code parameters and with nothing else changed.
ContractStripped(url) ==
  LET kept == SelectSeq(QueryParams(url), LAMBDA p : ~IsCodeParam(p))
  IN  IF kept = QueryParams(url) THEN url
      ELSE UrlBase(url)
           \o (IF Len(kept) = 0 THEN <<>> ELSE <<"?">> \o Join(kept, "&"))
           \o UrlFragment(url)

\* The step ends the code exchange of the page: its .then or its .catch
\* strips the code from the visible URL.
ExchangeEnds ==
  /\ page = "app"
  /\ Cardinality(requests') < Cardinality(requests)

\* C16: stripping the code removes every code parameter and nothing else:
\* the other parameters keep their text and order, and no "?" is left
\* when code was the only parameter.
C16_StripsCodeOnly ==
  [][ExchangeEnds => href' = ContractStripped(href)]_vars

\* The code the contract reads from a URL: the value of the first code
\* parameter, the parameter split at its first "=" only; found = FALSE
\* when the query string has no code parameter.
ContractCode(url) ==
  LET codes == SelectSeq(QueryParams(url), IsCodeParam)
  IN  IF Len(codes) = 0 THEN [found |-> FALSE, value |-> <<>>]
      ELSE [found |-> TRUE, value |-> DecodeURIComponent(ParamValue(codes[1]))]

\* The step constructs the service on the URL the provider redirected to
\* (the constructor leaves that URL in href).
ConstructedOnReturn ==
  /\ page = "provider"
  /\ page' = "app"

\* C17: the code read on construction is the value of the first code
\* parameter, each pair split at its first "=" only, so a literal "=" in
\* the value is kept in the code sent to the token endpoint; without a
\* code parameter no exchange is started.
C17_CodeReadFromFirstParam ==
  [][ConstructedOnReturn =>
       IF ContractCode(href').found
       THEN /\ Cardinality(requests') = 1
            /\ \A r \in requests' :
                 ~r.isRefresh /\ r.code = ContractCode(href').value
       ELSE requests' = {}]_vars

\* logout() has asked for its navigation and the page has not unloaded.
LoggedOut == page = "app" /\ nav.kind \in {"reload", "logout"}

\* The step stores the response of a refresh exchange.
RefreshStored ==
  /\ last' = <<"refresh", "then", "ok">>
  /\ \E r \in requests, json \in Bodies :
       r.isRefresh /\ json.ok /\ JsonResolve(r, json)

\* C18: logout() cancels neither a refresh exchange in flight nor a
\* pending refresh timer, and a refresh response that arrives after
\* logout() cleared storage writes auth again: the session is
\* Authenticated after logout without a new authorize().
C18_LogoutDoesNotCancelRefresh ==
  [][/\ \A b \in BOOLEAN :
          Logout(b) => (requests' = requests /\ timers' = timers)
     /\ (LoggedOut /\ RefreshStored) =>
          (haveItem(M', "auth") /\ isAuthenticated(M'))]_vars

\* A refresh response has written auth after logout(true) cleared storage.
C18_Witness ==
  /\ page = "app"
  /\ nav.kind = "logout"
  /\ last = <<"refresh", "then", "ok">>
  /\ haveItem(M, "auth")
  /\ isAuthenticated(M)

\* The stored Token Record can be refreshed: it has a refresh token and an
\* expires_at.
Refreshable(m) ==
  /\ isAuthenticated(m)
  /\ getAuthTokens(m).refresh_token /= NoToken
  /\ ~Falsy(getAuthTokens(m).expires_at)

\* The refresh chain runs: a timer is pending or a refresh exchange is in
\* flight.
RefreshChainRuns ==
  \/ timers /= {}
  \/ \E r \in requests : r.isRefresh

\* C19: on a loaded page with auto-refresh enabled and a Token Record that
\* has a refresh token and an expires_at, a refresh timer is pending or a
\* refresh exchange is in flight.
C19_RefreshChainAlive ==
  (page = "app" /\ props.autoRefresh = "true" /\ Refreshable(M))
    => RefreshChainRuns

\* The page a stored state is met by when the application is constructed
\* anew on a URL without a code: no timer, no handle, no navigation.
FreshPage(m) ==
  [m EXCEPT !.href = <<"app">>, !.nav = NoNav, !.timers = {}, !.timeout = 0]

\* C20: for every value of the auto-refresh flag, a successful code
\* exchange arms the refresh timer exactly when a construction on a URL
\* without a code, with the same configuration and the same stored Token
\* Record, arms it.
C20_SameArmingDecision ==
  [][CodeExchangeSucceeds =>
       ((\E t \in timers' : t \notin timers)
          <=> constructWithoutCode(FreshPage(M')).timers /= {})]_vars

====
